---- MODULE Spec2Model ----
(***************************************************************************)
(* The ESGF/ARM comparison notebook                                        *)
(* (notebooks/example-workflows/esgf2-arm-comparison.ipynb) executed by    *)
(* the Jupyter Book build that _config.yml configures.                     *)
(*                                                                         *)
(* The state is the build's status plus the notebook kernel: the position  *)
(* in the list of code cells, the Python names bound so far and the values *)
(* of the datasets the cells build.  One action per code cell.             *)
(*                                                                         *)
(* Units: angles are whole degrees, temperatures are hundredths of a       *)
(* degree, datetime64 values are half-days since the start date's year.    *)
(***************************************************************************)
EXTENDS Integers, Sequences, FiniteSets, TLC

VARIABLES
    build,          \* "idle" | "executing" | "succeeded" | "failed"
    cached,         \* outputs of an earlier successful execution are stored
    pc,             \* index in Cells of the next code cell to execute
    halted,         \* the notebook's execution was stopped by an error
    trace,          \* the cells whose execution was started in this run, in order
    errors,         \* the cells that raised in this run
    defined,        \* the Python names bound in the kernel
    environ,        \* [ARM_USERNAME, ARM_PASSWORD : BOOLEAN] -- is the variable set
    opendap_urls,   \* number of OPeNDAP URLs the search returned
    esgf_ds,        \* [lon, lat, time, tas]
    arm_files,      \* the downloaded files, each named by the time of its sample
    arm_ds,         \* sequence of samples [time, temp_mean, lat, lon]
    site,           \* [lat, lon] read from arm_ds
    cmip6_nearest,  \* [lon, lat, time, tas, calendar]
    sgp_monthly_mean_temperature,   \* sequence of [month, count, mean]
    cmip6_monthly_mean_temperature, \* [time, values, units]
    computes,       \* the blocking loads issued so far: sequence of [ds, op]
    plotted         \* the overlay chart was rendered

kernel == << pc, halted, trace, errors, defined, opendap_urls, esgf_ds, arm_files,
             arm_ds, site, cmip6_nearest, sgp_monthly_mean_temperature,
             cmip6_monthly_mean_temperature, computes, plotted >>

vars == << build, cached, environ, kernel >>

(***************************************************************************)
(* Bounds of the model.                                                    *)
(***************************************************************************)
MaxGrid == 2        \* longest longitude axis of the model dataset
MaxArm == 2         \* most observation files a download returns
MaxResults == 2     \* most datasets a catalog search returns

(***************************************************************************)
(* _config.yml                                                             *)
(***************************************************************************)
execute_notebooks == "force"

\* The configuration with errors allowed.
allow_errors_true == TRUE

allow_errors == FALSE

\* The configuration with execution errors only logged.
raise_on_error_false == FALSE

nb_execution_raise_on_error == TRUE

\* The cells with the longitude clean-up moved after the grid selection.
Cells_cleanupLate ==
    << "imports", "client", "esgf_search", "esgf_open", "arm_download", "arm_open",
       "site_coords", "nearest", "lon_cleanup", "to_datetime", "time_slice", "arm_monthly",
       "cmip6_compute", "convert_units", "plot" >>

(***************************************************************************)
(* The notebook's code cells in document order (the last code cell of the  *)
(* file is empty and is not executed).                                     *)
(***************************************************************************)
Cells == << "imports", "client", "esgf_search", "esgf_open", "lon_cleanup",
            "arm_download", "arm_open", "site_coords", "nearest", "to_datetime",
            "time_slice", "arm_monthly", "cmip6_compute", "convert_units", "plot" >>

NumCells == Len(Cells)

\* A retry: after the third cell, the second is executed again.
NextCell_retry(c) == IF c = 3 THEN 2 ELSE c + 1

\* The cell executed after cell number c: the next one in the document.
NextCell(c) == c + 1

\* The cell tags of every code cell are empty: none carries raises-exception.
CellTags(c) == {}

\* The step of the workflow (1..9) a cell belongs to, after the notebook's sections:
\* set-up, search, open, clean-up, observations, subsetting, monthly series, units,
\* chart.
StageOf(cell) ==
    CASE cell \in {"imports", "client"} -> 1
      [] cell = "esgf_search" -> 2
      [] cell = "esgf_open" -> 3
      [] cell = "lon_cleanup" -> 4
      [] cell \in {"arm_download", "arm_open"} -> 5
      [] cell \in {"site_coords", "nearest", "to_datetime", "time_slice"} -> 6
      [] cell \in {"arm_monthly", "cmip6_compute"} -> 7
      [] cell = "convert_units" -> 8
      [] cell = "plot" -> 9

(***************************************************************************)
(* Sequences.                                                              *)
(***************************************************************************)
Range(s) == { s[i] : i \in DOMAIN s }

IsNonDecreasing(s) == \A i \in 1..(Len(s) - 1) : s[i] <= s[i + 1]

IsStrictlyIncreasing(s) == \A i \in 1..(Len(s) - 1) : s[i] < s[i + 1]

\* p, a sequence of indices into k sorted by key, with index j inserted after the
\* last index whose key is <= k[j].
RECURSIVE InsertIndex(_, _, _)
InsertIndex(p, j, k) ==
    IF p = << >> THEN << j >>
    ELSE IF k[p[Len(p)]] <= k[j]
         THEN Append(p, j)
         ELSE Append(InsertIndex(SubSeq(p, 1, Len(p) - 1), j, k), p[Len(p)])

\* The indices 1..n of k in ascending order of key, equal keys in their first order
\* (the stable argsort behind Dataset.sortby).
RECURSIVE ArgSort(_, _)
ArgSort(k, n) == IF n = 0 THEN << >> ELSE InsertIndex(ArgSort(k, n - 1), n, k)

\* Dataset.sortby: the entries of s reordered by ascending key k.
SortBy(s, k) == LET p == ArgSort(k, Len(k)) IN [i \in 1..Len(s) |-> s[p[i]]]

RECURSIVE Sum(_)
Sum(s) == IF s = << >> THEN 0 ELSE s[1] + Sum(Tail(s))

(***************************************************************************)
(* Calendars.  A date is [y, m, d, h] with h the half of the day (0 or 1). *)
(* The model's time axis is in the noleap calendar (cftime objects, kept   *)
(* as dates); datetime64 values are half-days since 1 January of the start *)
(* date's year in the standard calendar.                                   *)
(***************************************************************************)
start_date == [y |-> 2013, m |-> 1, d |-> 1]

end_date == [y |-> 2013, m |-> 12, d |-> 31]

EpochYear == start_date.y

IsLeap(y) == y % 4 = 0 /\ (y % 100 # 0 \/ y % 400 = 0)

MonthLen(y, m, cal) ==
    IF m = 2 THEN (IF cal = "standard" /\ IsLeap(y) THEN 29 ELSE 28)
    ELSE IF m \in {4, 6, 9, 11} THEN 30 ELSE 31

YearLen(y, cal) == IF cal = "standard" /\ IsLeap(y) THEN 366 ELSE 365

\* Days of the year before the first of month m.
DaysBeforeMonth(y, m, cal) ==
    << 0, 31, 59, 90, 120, 151, 181, 212, 243, 273, 304, 334 >>[m]
        + (IF m > 2 /\ cal = "standard" /\ IsLeap(y) THEN 1 ELSE 0)

\* Days from 1 January of EpochYear to 1 January of year y.
RECURSIVE DaysBeforeYear(_, _)
DaysBeforeYear(y, cal) ==
    IF y = EpochYear THEN 0
    ELSE IF y > EpochYear THEN DaysBeforeYear(y - 1, cal) + YearLen(y - 1, cal)
    ELSE DaysBeforeYear(y + 1, cal) - YearLen(y, cal)

\* The datetime64 value of a date of the standard calendar.
ToDatetime64(date) ==
    2 * (DaysBeforeYear(date.y, "standard") + DaysBeforeMonth(date.y, date.m, "standard")
         + date.d - 1) + date.h

Years == (EpochYear - 2)..(EpochYear + 2)

\* The year a day (counted from 1 January of EpochYear) falls in.
YearOfDay(day) ==
    CHOOSE y \in Years :
        DaysBeforeYear(y, "standard") <= day /\ day < DaysBeforeYear(y + 1, "standard")

\* The month of year y the day number doy (from 0) of that year falls in.
MonthOfDay(y, doy) ==
    CHOOSE m \in 1..12 :
        /\ DaysBeforeMonth(y, m, "standard") <= doy
        /\ doy < DaysBeforeMonth(y, m, "standard") + MonthLen(y, m, "standard")

DateOfDay(y, m, doy, h) ==
    [y |-> y, m |-> m, d |-> doy - DaysBeforeMonth(y, m, "standard") + 1, h |-> h]

DateInYear(y, doy, h) == DateOfDay(y, MonthOfDay(y, doy), doy, h)

\* The date of a datetime64 value.
FromDatetime64(t) ==
    DateInYear(YearOfDay(t \div 2), (t \div 2) - DaysBeforeYear(YearOfDay(t \div 2), "standard"),
               t % 2)

\* CFTimeIndex.to_datetimeindex: each cftime date becomes the datetime64 value of
\* the same year, month, day and hour.
to_datetimeindex(times) == [i \in 1..Len(times) |-> ToDatetime64(times[i])]

\* The number of the calendar month a datetime64 value falls in.
MonthIndex(t) == LET date == FromDatetime64(t) IN 12 * date.y + date.m

(***************************************************************************)
(* The array operations of the cells.                                      *)
(***************************************************************************)
\* The remapping without the shift before the modulo.
RemapLon_noShift(lon) == [i \in 1..Len(lon) |-> (lon[i] % 360) - 180]

\* (lon + 180) % 360 - 180, elementwise on the X coordinate.
RemapLon(lon) == [i \in 1..Len(lon) |-> ((lon[i] + 180) % 360) - 180]

\* The clean-up without the sortby.
LonCleanup_noSort(ds) == [ds EXCEPT !.lon = [i \in 1..Len(ds.lon) |-> ((ds.lon[i] + 180) % 360) - 180]]

\* esgf_ds after the clean-up cell: the X coordinate remapped, then the dataset
\* sorted by it.
LonCleanup(ds) ==
    LET remapped == RemapLon(ds.lon)
    IN  [ds EXCEPT !.lon = SortBy(remapped, remapped)]

Abs(x) == IF x < 0 THEN -x ELSE x

\* Index.get_indexer([x], method='nearest') on an increasing index: the label at
\* the least distance from x, the larger label when two are equally near.
Nearest(index, x) ==
    CHOOSE v \in Range(index) :
        \A w \in Range(index) :
            \/ Abs(v - x) < Abs(w - x)
            \/ Abs(v - x) = Abs(w - x) /\ v >= w

\* A nearest lookup needs a unique, monotonic index; it raises otherwise.
NearestRaises(index) == ~IsStrictlyIncreasing(index)

\* A slice that stops one position early.
TimeSlice_dropLast(time) ==
    LET lo == ToDatetime64([y |-> start_date.y, m |-> start_date.m, d |-> start_date.d, h |-> 0])
        hi == ToDatetime64([y |-> end_date.y, m |-> end_date.m, d |-> end_date.d, h |-> 1])
        kept == { i \in 1..Len(time) : lo <= time[i] /\ time[i] <= hi }
    IN  { i \in kept : i + 1 \in kept }

\* The positions of an increasing datetime64 index selected by
\* slice(start_date, end_date): the strings have day resolution, so the slice runs
\* from the first instant of the start day to the last instant of the end day.
TimeSlice(time) ==
    LET lo == ToDatetime64([y |-> start_date.y, m |-> start_date.m, d |-> start_date.d, h |-> 0])
        hi == ToDatetime64([y |-> end_date.y, m |-> end_date.m, d |-> end_date.d, h |-> 1])
    IN  { i \in 1..Len(time) : lo <= time[i] /\ time[i] <= hi }

\* The entries of s at the positions in idx, in order.
RECURSIVE Take(_, _, _)
Take(s, idx, i) ==
    IF i > Len(s) THEN << >>
    ELSE (IF i \in idx THEN << s[i] >> ELSE << >>) \o Take(s, idx, i + 1)

NaN == "NaN"

\* One bin of resample(time='1M').mean(): the mean of the samples of month, NaN
\* when the month holds none.
MonthBin(samples, month) ==
    LET members == { i \in 1..Len(samples) : MonthIndex(samples[i].time) = month }
        vals == Take([i \in 1..Len(samples) |-> samples[i].temp_mean], members, 1)
    IN  [month |-> month, count |-> Cardinality(members),
         mean |-> IF members = {} THEN NaN ELSE Sum(vals) \div Cardinality(members)]

\* A grouping by month that yields bins only for the months that hold samples.
ResampleMonthlyMean_skipEmpty(samples) ==
    IF samples = << >> THEN << >>
    ELSE LET first == MonthIndex(samples[1].time)
             last == MonthIndex(samples[Len(samples)].time)
             all == [i \in 1..(last - first + 1) |-> MonthBin(samples, first + i - 1)]
         IN  Take(all, { i \in 1..Len(all) : all[i].count > 0 }, 1)

\* resample(time='1M').mean() of a time-sorted series: one bin for every calendar
\* month from the month of the first sample to the month of the last.
ResampleMonthlyMean(samples) ==
    IF samples = << >> THEN << >>
    ELSE LET first == MonthIndex(samples[1].time)
             last == MonthIndex(samples[Len(samples)].time)
         IN  [i \in 1..(last - first + 1) |-> MonthBin(samples, first + i - 1)]

\* 0 degC in hundredths of a kelvin.
ZeroCelsius == 27315

\* A conversion that subtracts the offset whatever the unit of its argument.
ConvertToDegC_always(q) ==
    [q EXCEPT !.values = [i \in 1..Len(q.values) |-> q.values[i] - ZeroCelsius], !.units = "degC"]

\* metpy.convert_units('degC') of a quantified array.
ConvertToDegC(q) ==
    IF q.units = "K"
    THEN [q EXCEPT !.values = [i \in 1..Len(q.values) |-> q.values[i] - ZeroCelsius],
                   !.units = "degC"]
    ELSE q

\* The loads with the site coordinates read without loading anything.
Materializes_lazyCoords(cell) ==
    CASE cell = "arm_monthly" -> << [ds |-> "arm_ds", op |-> "resample.mean.compute"] >>
      [] cell = "cmip6_compute" -> << [ds |-> "esgf_ds", op |-> "compute"] >>
      [] OTHER -> << >>

\* The blocking loads a cell issues: .values on a lazy variable and .compute().
Materializes(cell) ==
    CASE cell = "site_coords" ->
             << [ds |-> "arm_ds", op |-> "lat.values"], [ds |-> "arm_ds", op |-> "lon.values"] >>
      [] cell = "arm_monthly" ->
             << [ds |-> "arm_ds", op |-> "resample.mean.compute"] >>
      [] cell = "cmip6_compute" ->
             << [ds |-> "esgf_ds", op |-> "compute"] >>
      [] OTHER -> << >>

(***************************************************************************)
(* What the remote services and the environment can hand to a run.         *)
(***************************************************************************)
\* The process environment: is each credential variable set.
Environments == [ARM_USERNAME : BOOLEAN, ARM_PASSWORD : BOOLEAN]

\* The file URLs of the dataset the search picked.
UrlLists == { << >>, << "tas_Amon_E3SM-1-0_historical_r1i1p1f1" >> }

\* Longitudes of the model grid, in [0, 360).
LonValues == {0, 180, 359}

LonGrids == UNION { [1..n -> LonValues] : n \in 1..MaxGrid }

LatGrid == << -60, 0, 60 >>

\* The model output is monthly (table Amon): one time stamp in the middle of each
\* month, from a first month to a last month counted from the start date's month.
FirstMonths == {-1, 0, 1}

LastMonths == {11, 12}

MidMonth(k) ==
    LET y == start_date.y + ((start_date.m - 1 + k) \div 12)
        m == ((start_date.m - 1 + k) % 12) + 1
        n == MonthLen(y, m, "noleap")
    IN  [y |-> y, m |-> m, d |-> (n \div 2) + 1, h |-> n % 2]

\* Near-surface air temperatures of the model, in hundredths of a kelvin.
KelvinValues == {26315, 30015}

\* The times of the observation files the archive holds for the date range.
ArmSampleDates ==
    { [y |-> start_date.y, m |-> 1, d |-> 10, h |-> 0],
      [y |-> start_date.y, m |-> 1, d |-> 31, h |-> 1],
      [y |-> start_date.y, m |-> 4, d |-> 2, h |-> 0] }

ArmTimes == { ToDatetime64(date) : date \in ArmSampleDates }

\* The file lists a download can return: the files in any order, none twice.
ArmFileLists ==
    { f \in UNION { [1..n -> ArmTimes] : n \in 1..MaxArm } :
        \A i, j \in DOMAIN f : i # j => f[i] # f[j] }

\* The coordinates stored in the files of datastream sgpmetE13.b1.
Sites == { [lat |-> 37, lon |-> -97] }

\* The observed mean temperature of a sample, in hundredths of a degree Celsius.
ArmTemp(t) == LET date == FromDatetime64(t) IN 100 * date.m + 10 * date.d

(***************************************************************************)
(* The kernel.                                                             *)
(***************************************************************************)
NoDataset == [lon |-> << >>, lat |-> << >>, time |-> << >>, tas |-> << >>]

NoPoint == [lon |-> 0, lat |-> 0, time |-> << >>, tas |-> << >>, calendar |-> "none"]

NoQuantity == [time |-> << >>, values |-> << >>, units |-> "none"]

NoSite == [lat |-> 0, lon |-> 0]

\* A fresh kernel: nothing bound, nothing loaded.
KernelInit ==
    /\ pc = 1
    /\ halted = FALSE
    /\ trace = << >>
    /\ errors = {}
    /\ defined = {}
    /\ opendap_urls = << >>
    /\ esgf_ds = NoDataset
    /\ arm_files = << >>
    /\ arm_ds = << >>
    /\ site = NoSite
    /\ cmip6_nearest = NoPoint
    /\ sgp_monthly_mean_temperature = << >>
    /\ cmip6_monthly_mean_temperature = NoQuantity
    /\ computes = << >>
    /\ plotted = FALSE

\* The kernel of a new process.
KernelReset ==
    /\ pc' = 1
    /\ halted' = FALSE
    /\ trace' = << >>
    /\ errors' = {}
    /\ defined' = {}
    /\ opendap_urls' = << >>
    /\ esgf_ds' = NoDataset
    /\ arm_files' = << >>
    /\ arm_ds' = << >>
    /\ site' = NoSite
    /\ cmip6_nearest' = NoPoint
    /\ sgp_monthly_mean_temperature' = << >>
    /\ cmip6_monthly_mean_temperature' = NoQuantity
    /\ computes' = << >>
    /\ plotted' = FALSE

Init ==
    /\ build = "idle"
    /\ cached = FALSE
    /\ environ \in Environments
    /\ KernelInit

\* The cell `cell` is the next one to execute.
AtCell(cell) ==
    /\ build = "executing"
    /\ ~halted
    /\ pc <= NumCells
    /\ Cells[pc] = cell

\* The cell ran to its end.
Completed(cell) == cell \in Range(trace) /\ cell \notin errors

\* The cell at pc runs to its end: execution moves to the next cell.
Returns ==
    /\ trace' = Append(trace, Cells[pc])
    /\ pc' = NextCell(pc)
    /\ computes' = computes \o Materializes(Cells[pc])
    /\ UNCHANGED << halted, errors >>

\* The cell at pc raises.  Nothing in the notebook catches it: the executor stops
\* the run there unless errors are allowed (by the configuration or by the cell's
\* raises-exception tag).
Raises ==
    /\ trace' = Append(trace, Cells[pc])
    /\ computes' = computes
    /\ IF "raises-exception" \in CellTags(pc)
       THEN /\ pc' = NextCell(pc)
            /\ UNCHANGED << halted, errors >>
       ELSE /\ errors' = errors \cup {Cells[pc]}
            /\ IF allow_errors
               THEN pc' = NextCell(pc) /\ halted' = halted
               ELSE pc' = pc /\ halted' = TRUE

(***************************************************************************)
(* The code cells.                                                         *)
(***************************************************************************)
site_vars == << build, cached, environ >>

\* import ...; xr.set_options; warnings.filterwarnings; hv.extension
Cell_imports ==
    /\ AtCell("imports")
    /\ Returns
    /\ defined' = defined \cup {"os", "warnings", "act", "Client", "hv", "hvplot", "plt",
                                "np", "pd", "cf_xarray", "metpy", "SearchConnection", "xr"}
    /\ UNCHANGED << site_vars, opendap_urls, esgf_ds, arm_files, arm_ds, site, cmip6_nearest,
                    sgp_monthly_mean_temperature, cmip6_monthly_mean_temperature, plotted >>

\* client = Client()
Cell_client ==
    /\ AtCell("client")
    /\ "Client" \in defined
    /\ Returns
    /\ defined' = defined \cup {"client"}
    /\ UNCHANGED << site_vars, opendap_urls, esgf_ds, arm_files, arm_ds, site, cmip6_nearest,
                    sgp_monthly_mean_temperature, cmip6_monthly_mean_temperature, plotted >>

\* conn, ctx; result = ctx.search()[1]; files = ...; opendap_urls = [...]
\* The search returns nres datasets; taking the second one raises when there are
\* fewer than two.
Cell_esgf_search ==
    /\ AtCell("esgf_search")
    /\ "SearchConnection" \in defined
    /\ \E nres \in 0..MaxResults :
         IF nres < 2
         THEN /\ Raises
              /\ defined' = defined \cup {"conn", "ctx"}
              /\ UNCHANGED opendap_urls
         ELSE /\ Returns
              /\ defined' = defined \cup {"conn", "ctx", "result", "files", "opendap_urls"}
              /\ opendap_urls' \in UrlLists
    /\ UNCHANGED << site_vars, esgf_ds, arm_files, arm_ds, site, cmip6_nearest,
                    sgp_monthly_mean_temperature, cmip6_monthly_mean_temperature, plotted >>

\* esgf_ds = xr.open_mfdataset(opendap_urls, combine='by_coords', chunks={'time':480})
\* Opening an empty list raises; otherwise the dataset is built lazily.
Cell_esgf_open ==
    /\ AtCell("esgf_open")
    /\ {"xr", "opendap_urls"} \subseteq defined
    /\ IF opendap_urls = << >>
       THEN /\ Raises
            /\ UNCHANGED << defined, esgf_ds >>
       ELSE /\ Returns
            /\ defined' = defined \cup {"esgf_ds"}
            /\ \E lon \in LonGrids, first \in FirstMonths, last \in LastMonths,
                  k \in KelvinValues :
                 esgf_ds' = [lon |-> lon, lat |-> LatGrid,
                             time |-> [i \in 1..(last - first + 1) |-> MidMonth(first + i - 1)],
                             tas |-> [i \in 1..(last - first + 1) |-> k]]
    /\ UNCHANGED << site_vars, opendap_urls, arm_files, arm_ds, site, cmip6_nearest,
                    sgp_monthly_mean_temperature, cmip6_monthly_mean_temperature, plotted >>

\* lon_coord = ...; esgf_ds[lon_coord] = (esgf_ds[lon_coord] + 180) % 360 - 180;
\* esgf_ds = esgf_ds.sortby(lon_coord)
Cell_lon_cleanup ==
    /\ AtCell("lon_cleanup")
    /\ {"cf_xarray", "esgf_ds"} \subseteq defined
    /\ Returns
    /\ defined' = defined \cup {"lon_coord"}
    /\ esgf_ds' = LonCleanup(esgf_ds)
    /\ UNCHANGED << site_vars, opendap_urls, arm_files, arm_ds, site, cmip6_nearest,
                    sgp_monthly_mean_temperature, cmip6_monthly_mean_temperature, plotted >>

\* arm_username = os.getenv(...); arm_password = os.getenv(...); datastream;
\* start_date; end_date; files = act.discovery.download_data(...)
\* os.getenv gives None for a variable that is not set and does not raise; the
\* archive then refuses the request: the call raises or returns no file.
Cell_arm_download ==
    /\ AtCell("arm_download")
    /\ {"os", "act"} \subseteq defined
    /\ IF environ.ARM_USERNAME /\ environ.ARM_PASSWORD
       THEN /\ Returns
            /\ defined' = defined \cup {"arm_username", "arm_password", "datastream",
                                        "start_date", "end_date", "files"}
            /\ arm_files' \in ArmFileLists
       ELSE \/ /\ Raises
               /\ defined' = defined \cup {"arm_username", "arm_password", "datastream",
                                           "start_date", "end_date"}
               /\ UNCHANGED arm_files
            \/ /\ Returns
               /\ defined' = defined \cup {"arm_username", "arm_password", "datastream",
                                           "start_date", "end_date", "files"}
               /\ arm_files' = << >>
    /\ UNCHANGED << site_vars, opendap_urls, esgf_ds, arm_ds, site, cmip6_nearest,
                    sgp_monthly_mean_temperature, cmip6_monthly_mean_temperature, plotted >>

\* arm_ds = xr.open_mfdataset(files, combine='nested', concat_dim='time', ...)
\* The files are concatenated along time in the order of the list.
Cell_arm_open ==
    /\ AtCell("arm_open")
    /\ {"xr", "files"} \subseteq defined
    /\ IF arm_files = << >>
       THEN /\ Raises
            /\ UNCHANGED << defined, arm_ds >>
       ELSE /\ Returns
            /\ defined' = defined \cup {"arm_ds"}
            /\ \E s \in Sites :
                 arm_ds' = [i \in 1..Len(arm_files) |->
                               [time |-> arm_files[i], temp_mean |-> ArmTemp(arm_files[i]),
                                lat |-> s.lat, lon |-> s.lon]]
    /\ UNCHANGED << site_vars, opendap_urls, esgf_ds, arm_files, site, cmip6_nearest,
                    sgp_monthly_mean_temperature, cmip6_monthly_mean_temperature, plotted >>

\* lat = arm_ds.lat.values[0]; lon = arm_ds.lon.values[0]
Cell_site_coords ==
    /\ AtCell("site_coords")
    /\ "arm_ds" \in defined
    /\ Returns
    /\ defined' = defined \cup {"lat", "lon"}
    /\ site' = [lat |-> arm_ds[1].lat, lon |-> arm_ds[1].lon]
    /\ UNCHANGED << site_vars, opendap_urls, esgf_ds, arm_files, arm_ds, cmip6_nearest,
                    sgp_monthly_mean_temperature, cmip6_monthly_mean_temperature, plotted >>

\* cmip6_nearest = esgf_ds.cf.sel(lat=lat, lon=lon, method='nearest')
Cell_nearest ==
    /\ AtCell("nearest")
    /\ {"esgf_ds", "lat", "lon"} \subseteq defined
    /\ IF NearestRaises(esgf_ds.lon) \/ NearestRaises(esgf_ds.lat)
       THEN /\ Raises
            /\ UNCHANGED << defined, cmip6_nearest >>
       ELSE /\ Returns
            /\ defined' = defined \cup {"cmip6_nearest"}
            /\ cmip6_nearest' = [lon |-> Nearest(esgf_ds.lon, site.lon),
                                 lat |-> Nearest(esgf_ds.lat, site.lat),
                                 time |-> esgf_ds.time, tas |-> esgf_ds.tas,
                                 calendar |-> "noleap"]
    /\ UNCHANGED << site_vars, opendap_urls, esgf_ds, arm_files, arm_ds, site,
                    sgp_monthly_mean_temperature, cmip6_monthly_mean_temperature, plotted >>

\* cmip6_nearest['time'] = cmip6_nearest.indexes['time'].to_datetimeindex()
Cell_to_datetime ==
    /\ AtCell("to_datetime")
    /\ "cmip6_nearest" \in defined
    /\ Returns
    /\ cmip6_nearest' = [cmip6_nearest EXCEPT !.time = to_datetimeindex(@),
                                              !.calendar = "datetime64"]
    /\ UNCHANGED << site_vars, defined, opendap_urls, esgf_ds, arm_files, arm_ds, site,
                    sgp_monthly_mean_temperature, cmip6_monthly_mean_temperature, plotted >>

\* cmip6_nearest = cmip6_nearest.sel(time=slice(start_date, end_date))
Cell_time_slice ==
    /\ AtCell("time_slice")
    /\ {"cmip6_nearest", "start_date", "end_date"} \subseteq defined
    /\ cmip6_nearest.calendar = "datetime64"
    /\ Returns
    /\ LET kept == TimeSlice(cmip6_nearest.time)
       IN  cmip6_nearest' = [cmip6_nearest EXCEPT !.time = Take(@, kept, 1),
                                                  !.tas = Take(@, kept, 1)]
    /\ UNCHANGED << site_vars, defined, opendap_urls, esgf_ds, arm_files, arm_ds, site,
                    sgp_monthly_mean_temperature, cmip6_monthly_mean_temperature, plotted >>

\* arm_ds = arm_ds.sortby('time')
\* sgp_monthly_mean_temperature = arm_ds.temp_mean.resample(time='1M').mean().compute()
Cell_arm_monthly ==
    /\ AtCell("arm_monthly")
    /\ "arm_ds" \in defined
    /\ Returns
    /\ defined' = defined \cup {"sgp_monthly_mean_temperature"}
    /\ LET sorted == SortBy(arm_ds, [i \in 1..Len(arm_ds) |-> arm_ds[i].time])
       IN  /\ arm_ds' = sorted
           /\ sgp_monthly_mean_temperature' = ResampleMonthlyMean(sorted)
    /\ UNCHANGED << site_vars, opendap_urls, esgf_ds, arm_files, site, cmip6_nearest,
                    cmip6_monthly_mean_temperature, plotted >>

\* cmip6_monthly_mean_temperature = cmip6_nearest.tas.compute().metpy.quantify()
\* quantify attaches the unit of the variable's units attribute, K for tas.
Cell_cmip6_compute ==
    /\ AtCell("cmip6_compute")
    /\ {"cmip6_nearest", "metpy"} \subseteq defined
    /\ Returns
    /\ defined' = defined \cup {"cmip6_monthly_mean_temperature"}
    /\ cmip6_monthly_mean_temperature' =
           [time |-> cmip6_nearest.time, values |-> cmip6_nearest.tas, units |-> "K"]
    /\ UNCHANGED << site_vars, opendap_urls, esgf_ds, arm_files, arm_ds, site, cmip6_nearest,
                    sgp_monthly_mean_temperature, plotted >>

\* cmip6_monthly_mean_temperature = cmip6_monthly_mean_temperature.metpy.convert_units('degC')
Cell_convert_units ==
    /\ AtCell("convert_units")
    /\ "cmip6_monthly_mean_temperature" \in defined
    /\ Returns
    /\ cmip6_monthly_mean_temperature' = ConvertToDegC(cmip6_monthly_mean_temperature)
    /\ UNCHANGED << site_vars, defined, opendap_urls, esgf_ds, arm_files, arm_ds, site,
                    cmip6_nearest, sgp_monthly_mean_temperature, plotted >>

\* esgf_plot = ...hvplot(...); arm_plot = ...hvplot(...); esgf_plot * arm_plot
Cell_plot ==
    /\ AtCell("plot")
    /\ {"hvplot", "cmip6_monthly_mean_temperature", "sgp_monthly_mean_temperature"}
           \subseteq defined
    /\ Returns
    /\ defined' = defined \cup {"esgf_plot", "arm_plot"}
    /\ plotted' = TRUE
    /\ UNCHANGED << site_vars, opendap_urls, esgf_ds, arm_files, arm_ds, site, cmip6_nearest,
                    sgp_monthly_mean_temperature, cmip6_monthly_mean_temperature >>

\* Any cell can fail in the library or the remote service it calls (and fails on a
\* name that is not bound): the exception leaves the cell.
CellRaises ==
    /\ build = "executing"
    /\ ~halted
    /\ pc <= NumCells
    /\ Raises
    /\ UNCHANGED << site_vars, defined, opendap_urls, esgf_ds, arm_files, arm_ds, site,
                    cmip6_nearest, sgp_monthly_mean_temperature,
                    cmip6_monthly_mean_temperature, plotted >>

(***************************************************************************)
(* The site build.                                                         *)
(***************************************************************************)
\* A build starts in a new process with a new kernel.  The execution mode decides
\* whether the notebook is run: always (force), only when no stored outputs exist
\* (cache), never (off).
StartBuild ==
    /\ build \in {"idle", "succeeded", "failed"}
    /\ environ' \in Environments
    /\ KernelReset
    /\ build' = IF \/ execute_notebooks = "force"
                   \/ execute_notebooks = "cache" /\ ~cached
                THEN "executing" ELSE "succeeded"
    /\ UNCHANGED cached

\* The execution of the notebook is over: the build fails when a cell raised and
\* the configuration asks for errors to be raised, and succeeds otherwise.
FinishBuild ==
    /\ build = "executing"
    /\ halted \/ pc > NumCells
    /\ build' = IF errors # {} /\ nb_execution_raise_on_error THEN "failed" ELSE "succeeded"
    /\ cached' = (execute_notebooks = "cache" /\ errors = {})
    /\ UNCHANGED << environ, kernel >>

Next ==
    \/ StartBuild
    \/ Cell_imports
    \/ Cell_client
    \/ Cell_esgf_search
    \/ Cell_esgf_open
    \/ Cell_lon_cleanup
    \/ Cell_arm_download
    \/ Cell_arm_open
    \/ Cell_site_coords
    \/ Cell_nearest
    \/ Cell_to_datetime
    \/ Cell_time_slice
    \/ Cell_arm_monthly
    \/ Cell_cmip6_compute
    \/ Cell_convert_units
    \/ Cell_plot
    \/ CellRaises
    \/ FinishBuild

Spec == Init /\ [][Next]_vars

(***************************************************************************)
(* Properties.                                                             *)
(***************************************************************************)
\* Calendar days compared as year, month, day.
DayNumber(date) == 10000 * date.y + 100 * date.m + date.d

\* The calendar day of a datetime64 value lies from start_date to end_date.
InDateRange(t) ==
    LET day == DayNumber(FromDatetime64(t))
    IN  DayNumber(start_date) <= day /\ day <= DayNumber(end_date)

\* C1: the longitude remapping sends every longitude x of [0, 360) to a value y
\* with -180 <= y < 180 that is congruent to x modulo 360 (for the axis as opened
\* and for every whole degree); after the clean-up cell every longitude of the
\* model dataset lies in [-180, 180).
C1_LonRemapRange ==
    /\ (Completed("esgf_open") /\ "lon_cleanup" \notin Range(trace)) =>
           /\ \A i \in DOMAIN esgf_ds.lon :
                  LET x == esgf_ds.lon[i]
                      y == RemapLon(esgf_ds.lon)[i]
                  IN  (0 <= x /\ x < 360) => (-180 <= y /\ y < 180 /\ (y - x) % 360 = 0)
           /\ \A x \in 0..359 :
                  LET y == RemapLon(<< x >>)[1]
                  IN  -180 <= y /\ y < 180 /\ (y - x) % 360 = 0
    /\ Completed("lon_cleanup") =>
           \A i \in DOMAIN esgf_ds.lon : -180 <= esgf_ds.lon[i] /\ esgf_ds.lon[i] < 180

\* A longitude of the eastern half of the 0..360 axis came out negative.
C1_Witness ==
    /\ Completed("lon_cleanup")
    /\ \E i \in DOMAIN esgf_ds.lon : esgf_ds.lon[i] < 0

\* C2 as stated: every blocking load is a monthly-mean resampling, and a complete
\* run issues exactly two of them, one per dataset.
C2_Original ==
    /\ \A i \in DOMAIN computes : computes[i].op = "resample.mean.compute"
    /\ Completed("plot") => (Len(computes) = 2 /\ computes[1].ds # computes[2].ds)

\* C2 as amended: a complete run calls compute() exactly twice, once per dataset:
\* the monthly-mean resampling of the observation series, then a plain compute of
\* the time-sliced model series; before them the two .values reads of the site
\* coordinates load data of the observation dataset; nothing is loaded before the
\* site coordinates are read.
C2_ComputeTriggers ==
    /\ Completed("plot") =>
           computes = << [ds |-> "arm_ds", op |-> "lat.values"],
                         [ds |-> "arm_ds", op |-> "lon.values"],
                         [ds |-> "arm_ds", op |-> "resample.mean.compute"],
                         [ds |-> "esgf_ds", op |-> "compute"] >>
    /\ ~Completed("site_coords") => computes = << >>

\* A complete run, with its four blocking loads.
C2_Witness == Completed("plot") /\ Len(computes) = 4

\* C3: a cell that raises is the last cell of its run: the run is halted there, no
\* cell is executed twice, and a run without both credentials never gets past the
\* stage that downloads and opens the observations.
C3_FailureTerminatesRun ==
    /\ \A i \in DOMAIN trace : trace[i] \in errors => (i = Len(trace) /\ halted)
    /\ \A i, j \in DOMAIN trace : i # j => trace[i] # trace[j]
    /\ errors # {} => ~plotted
    /\ ~(environ.ARM_USERNAME /\ environ.ARM_PASSWORD) =>
           \A i \in DOMAIN trace : StageOf(trace[i]) <= 5

\* A run without credentials whose download returned nothing and whose open raised.
C3_Witness ==
    /\ ~environ.ARM_USERNAME
    /\ errors = {"arm_open"}
    /\ halted

\* C4: a build that succeeded executed every cell of the notebook in that build
\* and none of them raised.
C4_ErrorFailsBuild == build = "succeeded" => (errors = {} /\ trace = Cells)

\* A build that failed on a cell's error.
C4_Witness == build = "failed" /\ errors # {}

C6_LonSorted == Completed("lon_cleanup") => IsNonDecreasing(esgf_ds.lon)

\* An axis whose remapped values had to be reordered: 0, 180 became -180, 0.
C6_Witness == Completed("lon_cleanup") /\ esgf_ds.lon = << -180, 0 >>

\* C7: after the time slice every time stamp of the model series falls on a day
\* from start_date to end_date, and every time stamp of the model's time axis
\* that does is kept.
C7_TimeSliceInclusive ==
    Completed("time_slice") =>
        /\ \A i \in DOMAIN cmip6_nearest.time : InDateRange(cmip6_nearest.time[i])
        /\ \A i \in DOMAIN esgf_ds.time :
               LET t == ToDatetime64(esgf_ds.time[i])
               IN  InDateRange(t) => t \in Range(cmip6_nearest.time)

\* A slice that cut time stamps off and kept the twelve months of the range.
C7_Witness ==
    /\ Completed("time_slice")
    /\ Len(cmip6_nearest.time) = 12
    /\ Len(esgf_ds.time) > 12

\* C8: the monthly means of the observation series hold exactly one entry for
\* every calendar month from the month of the earliest sample to the month of the
\* latest, and no other entry.
C8_OneValuePerMonth ==
    Completed("arm_monthly") =>
        LET months == { MonthIndex(arm_ds[i].time) : i \in DOMAIN arm_ds }
            lo == CHOOSE a \in months : \A b \in months : a <= b
            hi == CHOOSE a \in months : \A b \in months : a >= b
            out == sgp_monthly_mean_temperature
        IN  /\ \A m \in lo..hi : Cardinality({ i \in DOMAIN out : out[i].month = m }) = 1
            /\ \A i \in DOMAIN out : out[i].month \in lo..hi
            /\ \A i \in DOMAIN out :
                   out[i].count = Cardinality({ j \in DOMAIN arm_ds :
                                                  MonthIndex(arm_ds[j].time) = out[i].month })

\* Samples in January and April only: February and March have an entry too.
C8_Witness ==
    /\ Completed("arm_monthly")
    /\ Len(sgp_monthly_mean_temperature) = 4
    /\ \E i \in DOMAIN sgp_monthly_mean_temperature : sgp_monthly_mean_temperature[i].count = 0

\* C9: after the unit conversion every value is the Kelvin value of the model
\* series minus 273.15, the unit is degC, and converting again changes nothing.
C9_KelvinToCelsius ==
    Completed("convert_units") =>
        LET q == cmip6_monthly_mean_temperature
        IN  /\ q.units = "degC"
            /\ Len(q.values) = Len(cmip6_nearest.tas)
            /\ \A i \in DOMAIN q.values : q.values[i] = cmip6_nearest.tas[i] - 27315
            /\ ConvertToDegC(q) = q

\* A converted series with a temperature below freezing.
C9_Witness ==
    /\ Completed("convert_units")
    /\ \E i \in DOMAIN cmip6_monthly_mean_temperature.values :
           cmip6_monthly_mean_temperature.values[i] < 0

\* C10: when the grid selection is executed, the longitude axis of the model
\* dataset has been remapped into [-180, 180) and sorted, and the target
\* coordinates have been read from the opened observation dataset.
C10_SelectionAfterCleanup ==
    "nearest" \in Range(trace) =>
        /\ Completed("lon_cleanup")
        /\ \A i \in DOMAIN esgf_ds.lon : -180 <= esgf_ds.lon[i] /\ esgf_ds.lon[i] < 180
        /\ IsNonDecreasing(esgf_ds.lon)
        /\ Completed("arm_open") /\ Completed("site_coords")
        /\ {"arm_ds", "lat", "lon"} \subseteq defined
        /\ \E i \in DOMAIN arm_ds : site = [lat |-> arm_ds[i].lat, lon |-> arm_ds[i].lon]

\* A selection that picked a grid longitude west of Greenwich.
C10_Witness == Completed("nearest") /\ cmip6_nearest.lon < 0

====
